---- MODULE Spec2Model ----
(***************************************************************************)
(* HookHub decision engine: similarity matching between error signatures,  *)
(* aggregation of historical outcomes, confidence scoring and the static   *)
(* fallback policy (services/decision-engine/app).                         *)
(*                                                                         *)
(* Optional values are sequences of length at most one: <<>> is Python's   *)
(* None and <<v>> is the present value v.  Strings that the code inspects  *)
(* character by character (error_message_pattern) are sequences of         *)
(* one-character strings; strings that it only compares (error_type, the   *)
(* decision names) are TLA+ strings.  Python floats are IEEE 754 binary64  *)
(* numbers, computed with round-to-nearest-even as CPython computes them;  *)
(* sum() adds from the left starting at 0, as it does in CPython 3.11.     *)
(***************************************************************************)
EXTENDS Integers, Sequences, FiniteSets, TLC

(* ---------------------------- bounds ----------------------------------- *)

\* longest error_message_pattern, in characters
MaxLen == 3

\* most rows the table holds to one classify call
MaxRows == 6

\* longest error_message_pattern of the target signature that is compared
\* with every historical signature
MaxTargetLen == 1

\* most rows the table holds when two actions compete on
\* records of one signature
MaxTiedRows == 10

\* most rows the table holds when calls are repeated
MaxRepeatedRows == 5

\* most of them that belong to another webhook
MaxOtherWebhookRows == 1

\* most rows the table holds when calls are repeated while rows of two
\* webhooks are stored
MaxMixedRows == 6

(* ------------------------ binary64 arithmetic -------------------------- *)

\* A natural number of any size is the sequence of its digits to the base
\* 2^14, least significant first.
LimbBits == 14

Base == 2^LimbBits

\* the digits of the significand of a float, and its width in bits
MantissaLimbs == 4

MantissaBits == 53

\* digit i of a number, 0 beyond its length
Limb(n, i) == IF i >= 1 /\ i <= Len(n) THEN n[i] ELSE 0

IsZeroNat(n) == \A i \in 1..Len(n) : n[i] = 0

\* a number without leading zero digits
RECURSIVE Trim(_)
Trim(n) ==
    IF n # <<>> /\ n[Len(n)] = 0 THEN Trim(SubSeq(n, 1, Len(n) - 1)) ELSE n

\* the digits of a number given by columns that may lie outside 0..Base-1
RECURSIVE Carried(_, _, _)
Carried(cols, i, carry) ==
    IF i > Len(cols)
    THEN (IF carry = 0 THEN <<>> ELSE <<carry>>)
    ELSE <<(cols[i] + carry) % Base>>
         \o Carried(cols, i + 1, (cols[i] + carry) \div Base)

\* the number of bits of one digit
BitLenLimb(v) == CHOOSE b \in 0..LimbBits : 2^b > v /\ (b = 0 \/ 2^(b - 1) <= v)

\* the number of bits of a number without leading zero digits
BitLength(n) ==
    IF n = <<>> THEN 0 ELSE LimbBits * (Len(n) - 1) + BitLenLimb(n[Len(n)])

\* n * 2^k
ShiftLeft(n, k) ==
    [i \in 1..(Len(n) + (k \div LimbBits) + 1) |->
        ((Limb(n, i - (k \div LimbBits)) * 2^(k % LimbBits)) % Base)
        + (Limb(n, i - (k \div LimbBits) - 1) \div 2^(LimbBits - (k % LimbBits)))]

\* n \div 2^k
ShiftRight(n, k) ==
    [i \in 1..(IF Len(n) > k \div LimbBits THEN Len(n) - (k \div LimbBits) ELSE 0) |->
        (Limb(n, i + (k \div LimbBits)) \div 2^(k % LimbBits))
        + ((Limb(n, i + (k \div LimbBits) + 1) % 2^(k % LimbBits))
           * 2^(LimbBits - (k % LimbBits)))]

\* bit i of a number, the lowest being bit 0
Bit(n, i) == (Limb(n, (i \div LimbBits) + 1) \div 2^(i % LimbBits)) % 2

\* n is a multiple of 2^k
LowBitsZero(n, k) ==
    /\ \A i \in 1..(k \div LimbBits) : Limb(n, i) = 0
    /\ Limb(n, (k \div LimbBits) + 1) % 2^(k % LimbBits) = 0

\* the order of two numbers: -1, 0 or 1
RECURSIVE CompareFrom(_, _, _)
CompareFrom(a, b, i) ==
    IF i = 0 THEN 0
    ELSE IF Limb(a, i) < Limb(b, i) THEN -1
    ELSE IF Limb(a, i) > Limb(b, i) THEN 1
    ELSE CompareFrom(a, b, i - 1)

CompareNat(a, b) == CompareFrom(a, b, IF Len(a) > Len(b) THEN Len(a) ELSE Len(b))

\* a + b
AddNat(a, b) ==
    Carried([i \in 1..((IF Len(a) > Len(b) THEN Len(a) ELSE Len(b)) + 1) |->
                Limb(a, i) + Limb(b, i)], 1, 0)

\* a - b for a >= b
SubNat(a, b) ==
    Carried([i \in 1..(IF Len(a) > Len(b) THEN Len(a) ELSE Len(b)) |->
                Limb(a, i) - Limb(b, i)], 1, 0)

\* one column of the product of two significands
ProductTerm(a, b, i, k) ==
    IF k + 1 - i >= 1 /\ k + 1 - i <= MantissaLimbs THEN a[i] * b[k + 1 - i] ELSE 0

\* a * b for two significands
MulNat(a, b) ==
    Carried([k \in 1..(2 * MantissaLimbs) |->
                ProductTerm(a, b, 1, k) + ProductTerm(a, b, 2, k)
                + ProductTerm(a, b, 3, k) + ProductTerm(a, b, 4, k)], 1, 0)

\* A float is [neg, m, e]: the number (-1)^neg * M * 2^e whose significand
\* M = m[1] + m[2]*2^14 + m[3]*2^28 + m[4]*2^42 is 0 or lies in
\* 2^52 .. 2^53 - 1.  Zero is kept with neg = FALSE and e = 0.
Float(neg, m, e) == [neg |-> neg, m |-> m, e |-> e]

FZero == Float(FALSE, <<0, 0, 0, 0>>, 0)

IsFZero(x) == IsZeroNat(x.m)

\* the first four digits of a number
Significand(n) == <<Limb(n, 1), Limb(n, 2), Limb(n, 3), Limb(n, 4)>>

\* the significand of a power of two
LeadingBit == <<0, 0, 0, 2^(MantissaBits - 1 - 3 * LimbBits)>>

IsPowerOfTwo(x) == x.m = LeadingBit

\* the significand 2^53 carries into the next binade
Renormalized(neg, m, e) ==
    IF Limb(m, MantissaLimbs) = 2^(MantissaBits - 3 * LimbBits)
    THEN Float(neg, LeadingBit, e + 1)
    ELSE Float(neg, Significand(m), e)

\* round to nearest, ties to even: the bit below the kept ones is set and
\* either a lower bit or the last kept bit is set
RoundsUp(n, k) == Bit(n, k - 1) = 1 /\ (~LowBitsZero(n, k - 1) \/ Bit(n, k) = 1)

\* the float nearest to n * 2^e for a number n of len bits, len > 0
RoundedOfLength(neg, n, e, len) ==
    IF len <= MantissaBits
    THEN Float(neg, Significand(ShiftLeft(n, MantissaBits - len)),
               e - (MantissaBits - len))
    ELSE IF RoundsUp(n, len - MantissaBits)
    THEN Renormalized(neg,
                      AddNat(ShiftRight(n, len - MantissaBits), <<1>>),
                      e + (len - MantissaBits))
    ELSE Float(neg, Significand(ShiftRight(n, len - MantissaBits)),
               e + (len - MantissaBits))

RoundedTrimmed(neg, n, e) ==
    IF n = <<>> THEN FZero ELSE RoundedOfLength(neg, n, e, BitLength(n))

\* the float nearest to (-1)^neg * n * 2^e
Rounded(neg, n, e) == RoundedTrimmed(neg, Trim(n), e)

\* the float of an integer
FloatOfInt(k) == Rounded(k < 0, <<(IF k < 0 THEN -k ELSE k) % Base,
                                  ((IF k < 0 THEN -k ELSE k) \div Base) % Base,
                                  (IF k < 0 THEN -k ELSE k) \div (Base * Base)>>, 0)

\* the floats of the integers the program computes with most, worked out once
SmallFloats == [k \in -1..100 |-> FloatOfInt(k)]

FInt(k) == IF k >= -1 /\ k <= 100 THEN SmallFloats[k] ELSE FloatOfInt(k)

FAbs(x) == [x EXCEPT !.neg = FALSE]

\* the order of the magnitudes of two floats that are not zero
CompareMagnitude(x, y) ==
    IF x.e < y.e THEN -1
    ELSE IF x.e > y.e THEN 1
    ELSE CompareNat(x.m, y.m)

Sign(x) == IF IsFZero(x) THEN 0 ELSE IF x.neg THEN -1 ELSE 1

\* the order of two floats: -1, 0 or 1
FCompare(x, y) ==
    IF Sign(x) # Sign(y) THEN (IF Sign(x) < Sign(y) THEN -1 ELSE 1)
    ELSE IF Sign(x) = 0 THEN 0
    ELSE Sign(x) * CompareMagnitude(x, y)

FLess(x, y) == FCompare(x, y) < 0

FLeq(x, y) == FCompare(x, y) <= 0

\* Python's min(x, y): y when it is smaller, else x
FMin(x, y) == IF FLess(y, x) THEN y ELSE x

\* x * y; a factor that is a power of two only moves the exponent
FMul(x, y) ==
    IF IsFZero(x) \/ IsFZero(y) THEN FZero
    ELSE IF IsPowerOfTwo(y) THEN Float(x.neg # y.neg, x.m, x.e + y.e + (MantissaBits - 1))
    ELSE IF IsPowerOfTwo(x) THEN Float(x.neg # y.neg, y.m, x.e + y.e + (MantissaBits - 1))
    ELSE Rounded(x.neg # y.neg, MulNat(x.m, y.m), x.e + y.e)

\* the sum of two floats of one sign, both significands taken to exponent e
SumAligned(x, y, e) ==
    Rounded(x.neg, AddNat(ShiftLeft(x.m, x.e - e), ShiftLeft(y.m, y.e - e)), e)

\* the sum of two floats of opposite signs, x the larger in magnitude
DifferenceAligned(x, y, e) ==
    Rounded(x.neg, SubNat(ShiftLeft(x.m, x.e - e), ShiftLeft(y.m, y.e - e)), e)

\* the sum of two floats that are not zero and whose exponents are near
SumNear(x, y) ==
    IF x.neg = y.neg
    THEN SumAligned(x, y, IF x.e < y.e THEN x.e ELSE y.e)
    ELSE IF CompareMagnitude(x, y) = 0 THEN FZero
    ELSE IF CompareMagnitude(x, y) > 0
    THEN DifferenceAligned(x, y, IF x.e < y.e THEN x.e ELSE y.e)
    ELSE DifferenceAligned(y, x, IF x.e < y.e THEN x.e ELSE y.e)

\* x + y; a term below a quarter of the last place of the other leaves it
FAdd(x, y) ==
    IF IsFZero(x) THEN y
    ELSE IF IsFZero(y) THEN x
    ELSE IF x.e - y.e >= MantissaBits + 3 THEN x
    ELSE IF y.e - x.e >= MantissaBits + 3 THEN y
    ELSE SumNear(x, y)

\* x - y: x plus y with its sign turned, zero keeping its own
FSub(x, y) == FAdd(x, IF IsFZero(y) THEN y ELSE [y EXCEPT !.neg = ~@])

\* a * k for a digit k
MulDigit(a, k) == Carried([i \in 1..Len(a) |-> a[i] * k], 1, 0)

\* the next quotient digit of r / d, r < d * Base, for a divisor of
\* MantissaLimbs digits whose top bit is set, from the estimate qhat that
\* the leading digits give, which is the digit or up to two above it
CorrectedDigit(r, d, qhat) ==
    IF CompareNat(MulDigit(d, qhat), r) <= 0 THEN qhat
    ELSE IF CompareNat(MulDigit(d, qhat - 1), r) <= 0 THEN qhat - 1
    ELSE qhat - 2

DigitEstimate(r, d) ==
    (Limb(r, MantissaLimbs + 1) * Base + Limb(r, MantissaLimbs)) \div d[MantissaLimbs]

QuotientDigit(r, d) ==
    CorrectedDigit(r, d, IF DigitEstimate(r, d) >= Base THEN Base - 1
                         ELSE DigitEstimate(r, d))

\* a division one quotient digit further, the digits kept lowest first
WithDigit(division, digit) ==
    [quotient |-> Append(division.quotient, digit), remainder |-> division.remainder]

\* the long division by d of r followed by steps - 1 zero digits
RECURSIVE LongDivision(_, _, _)
DividedFurther(r, d, steps, digit) ==
    WithDigit(LongDivision(<<0>> \o Trim(SubNat(r, MulDigit(d, digit))), d, steps - 1),
              digit)

LongDivision(r, d, steps) ==
    IF steps = 0
    THEN [quotient |-> <<>>, remainder |-> r]
    ELSE DividedFurther(r, d, steps, QuotientDigit(r, d))

\* twice a quotient, plus one when the division left a remainder
WithSticky(division) ==
    [ShiftLeft(division.quotient, 1) EXCEPT
        ![1] = @ + (IF IsZeroNat(division.remainder) THEN 0 ELSE 1)]

\* the digits that the two significands are shifted by to set the divisor's
\* top bit
Normalizing == MantissaLimbs * LimbBits - MantissaBits

\* x / y, y not zero: the quotient of the significands to 56 or 57 bits and
\* whether a remainder is left, rounded; a divisor that is a power of two
\* only moves the exponent
FDiv(x, y) ==
    IF IsFZero(x) THEN FZero
    ELSE IF IsPowerOfTwo(y) THEN Float(x.neg # y.neg, x.m, x.e - y.e - (MantissaBits - 1))
    ELSE Rounded(x.neg # y.neg,
                 WithSticky(LongDivision(Significand(ShiftLeft(x.m, Normalizing)),
                                         Significand(ShiftLeft(y.m, Normalizing)),
                                         MantissaLimbs + 1)),
                 x.e - y.e - MantissaLimbs * LimbBits - 1)

\* Python's n / d for integers, and the float of a decimal literal n/d
Quotient(n, d) == FDiv(FInt(n), FInt(d))

\* the quotients of small integers, worked out once
SmallQuotients == [n \in 0..16, d \in 1..16 |-> Quotient(n, d)]

Frac(n, d) ==
    IF n >= 0 /\ n <= 16 /\ d >= 1 /\ d <= 16 THEN SmallQuotients[n, d]
    ELSE Quotient(n, d)

\* the integer part of a magnitude below 2^30
TruncatedMagnitude(x) ==
    IF -x.e >= MantissaBits THEN 0
    ELSE Limb(ShiftRight(x.m, -x.e), 1)
         + Limb(ShiftRight(x.m, -x.e), 2) * Base
         + Limb(ShiftRight(x.m, -x.e), 3) * Base * Base

\* Python's int(x)
FTrunc(x) ==
    IF IsFZero(x) THEN 0
    ELSE IF x.neg THEN -TruncatedMagnitude(x) ELSE TruncatedMagnitude(x)

\* Python's sum() of floats: the terms are added to 0 from left to right
RECURSIVE SumOfFirst(_, _)
SumOfFirst(s, k) == IF k = 0 THEN FZero ELSE FAdd(SumOfFirst(s, k - 1), s[k])

FSumSeq(s) == SumOfFirst(s, Len(s))

(* --------------------------- configuration ----------------------------- *)

MIN_SAMPLE_SIZE == 5

CONFIDENCE_THRESHOLD == Frac(6, 10)

SIMILARITY_THRESHOLD == Frac(8, 10)

(* ------------------------------ strings -------------------------------- *)

None == <<>>

Some(v) == <<v>>

\* the characters message patterns are built from
Chars == {"a", "B", " "}

\* str.lower() on one character
LowerChar(c) == IF c = "B" THEN "b" ELSE c

\* str.lower()
Lower(s) == [i \in 1..Len(s) |-> LowerChar(s[i])]

IsSpace(c) == c = " "

\* str.split(): the maximal runs of non-whitespace characters, in order
RECURSIVE SplitFrom(_, _, _)
SplitFrom(s, i, cur) ==
    IF i > Len(s)
    THEN IF cur = <<>> THEN <<>> ELSE <<cur>>
    ELSE IF IsSpace(s[i])
         THEN IF cur = <<>>
              THEN SplitFrom(s, i + 1, <<>>)
              ELSE <<cur>> \o SplitFrom(s, i + 1, <<>>)
         ELSE SplitFrom(s, i + 1, Append(cur, s[i]))

Split(s) == SplitFrom(s, 1, <<>>)

\* set(s.split())
WordSet(s) == LET w == Split(s) IN {w[i] : i \in 1..Len(w)}

\* Python's `a in b` on strings
IsSubstring(a, b) ==
    \E i \in 1..(Len(b) - Len(a) + 1) : SubSeq(b, i, i + Len(a) - 1) = a

\* Python truthiness of an Optional[str] held as characters: neither None nor ""
TruthyStr(o) == o # None /\ o[1] # <<>>

\* Python truthiness of an Optional[str] held as a TLA+ string
TruthyName(o) == o # None /\ o[1] # ""

\* Python truthiness of an Optional[int]
TruthyInt(o) == o # None /\ o[1] # 0

(* ------------------------- similarity matcher -------------------------- *)

\* mutant: no partial credit for two codes of the same category
StatusCodeScoreExactOnly(signature1, signature2) ==
    IF signature1.http_status_code # None /\ signature2.http_status_code # None
    THEN IF signature1.http_status_code[1] = signature2.http_status_code[1]
         THEN FInt(1)
         ELSE FInt(0)
    ELSE IF signature1.http_status_code = None /\ signature2.http_status_code = None
         THEN FInt(1)
         ELSE Frac(2, 10)

\* the HTTP status code feature
StatusCodeScore(signature1, signature2) ==
    IF signature1.http_status_code # None /\ signature2.http_status_code # None
    THEN IF signature1.http_status_code[1] = signature2.http_status_code[1]
         THEN FInt(1)
         ELSE LET category1 == signature1.http_status_code[1] \div 100
                  category2 == signature2.http_status_code[1] \div 100
              IN  IF category1 = category2 THEN Frac(1, 2) ELSE FInt(0)
    ELSE IF signature1.http_status_code = None /\ signature2.http_status_code = None
         THEN FInt(1)
         ELSE Frac(2, 10)

\* mutant: presence is tested with `is not None`, so "" counts as present
ErrorTypeScoreIsNotNone(signature1, signature2) ==
    IF signature1.error_type # None /\ signature2.error_type # None
    THEN IF signature1.error_type[1] = signature2.error_type[1]
         THEN FInt(1)
         ELSE FInt(0)
    ELSE IF signature1.error_type = None /\ signature2.error_type = None
         THEN FInt(1)
         ELSE FInt(0)

\* the error type feature
ErrorTypeScore(signature1, signature2) ==
    IF TruthyName(signature1.error_type) /\ TruthyName(signature2.error_type)
    THEN IF signature1.error_type[1] = signature2.error_type[1]
         THEN FInt(1)
         ELSE FInt(0)
    ELSE IF ~TruthyName(signature1.error_type) /\ ~TruthyName(signature2.error_type)
         THEN FInt(1)
         ELSE FInt(0)

\* the fallback of the message feature when a pattern has no words
ExactOrSubstring(pattern1_lower, pattern2_lower) ==
    IF pattern1_lower = pattern2_lower
    THEN FInt(1)
    ELSE IF IsSubstring(pattern1_lower, pattern2_lower)
            \/ IsSubstring(pattern2_lower, pattern1_lower)
         THEN Frac(7, 10)
         ELSE FInt(0)

\* mutant: the Jaccard denominator is len(words1) + len(words2), not the
\* size of the union
JaccardSumOfSizes(words1, words2) ==
    Frac(Cardinality(words1 \cap words2), Cardinality(words1) + Cardinality(words2))

\* len(common_words) / len(all_words)
Jaccard(words1, words2) ==
    IF words1 \cup words2 # {}
    THEN Frac(Cardinality(words1 \cap words2), Cardinality(words1 \cup words2))
    ELSE FInt(0)

\* the message feature of two non-empty patterns, lower-cased, with their
\* word sets
PatternScore(pattern1_lower, pattern2_lower, words1, words2) ==
    IF words1 # {} /\ words2 # {}
    THEN Jaccard(words1, words2)
    ELSE ExactOrSubstring(pattern1_lower, pattern2_lower)

\* the message feature of two non-empty patterns, lower-cased
LoweredPatternScore(pattern1_lower, pattern2_lower) ==
    PatternScore(pattern1_lower, pattern2_lower,
                 WordSet(pattern1_lower), WordSet(pattern2_lower))

\* the error message pattern feature
MessagePatternScore(signature1, signature2) ==
    IF TruthyStr(signature1.error_message_pattern)
       /\ TruthyStr(signature2.error_message_pattern)
    THEN LoweredPatternScore(Lower(signature1.error_message_pattern[1]),
                             Lower(signature2.error_message_pattern[1]))
    ELSE IF ~TruthyStr(signature1.error_message_pattern)
            /\ ~TruthyStr(signature2.error_message_pattern)
         THEN FInt(1)
         ELSE FInt(0)

\* the list `scores` when calculate_similarity reaches its weighted average
FeatureScores(signature1, signature2) ==
    << StatusCodeScore(signature1, signature2),
       ErrorTypeScore(signature1, signature2),
       MessagePatternScore(signature1, signature2) >>

\* mutant: the message weight is 0.4 like the others and the sum is not
\* divided by the total weight
WeightedSumOnly(scores) ==
    LET weights == << Frac(4, 10), Frac(4, 10), Frac(4, 10) >>
    IN  FSumSeq([i \in 1..Len(scores) |-> FMul(scores[i], weights[i])])

\* the list `weights` when calculate_similarity reaches its weighted average
Weights == << Frac(4, 10), Frac(4, 10), Frac(2, 10) >>

\* weighted_sum / total_weight, guarded as the code guards it
GuardedQuotient(weights, weighted_sum, total_weight) ==
    IF weights = <<>> \/ total_weight = FInt(0)
    THEN FInt(0)
    ELSE IF FLess(FInt(0), total_weight)
         THEN FDiv(weighted_sum, total_weight)
         ELSE FInt(0)

\* sum(weights): every call weighs the same three features
TotalWeight == FSumSeq(Weights)

\* the weighted average that ends calculate_similarity
WeightedAverage(scores) ==
    GuardedQuotient(Weights,
                    FSumSeq([i \in 1..Len(scores) |-> FMul(scores[i], Weights[i])]),
                    TotalWeight)

\* ErrorSimilarityMatcher.calculate_similarity
calculate_similarity(signature1, signature2) ==
    WeightedAverage(FeatureScores(signature1, signature2))

(* ------------------------- find_similar_errors ------------------------- *)

\* list.sort(key=similarity, reverse=True) is stable: x goes after every
\* element whose similarity is at least its own
RECURSIVE InsertDescending(_, _)
InsertDescending(sorted, x) ==
    IF sorted = <<>> THEN <<x>>
    ELSE IF FLeq(x.similarity, Head(sorted).similarity)
         THEN <<Head(sorted)>> \o InsertDescending(Tail(sorted), x)
         ELSE <<x>> \o sorted

RECURSIVE SortDescending(_)
SortDescending(s) ==
    IF s = <<>> THEN <<>>
    ELSE InsertDescending(SortDescending(SubSeq(s, 1, Len(s) - 1)), s[Len(s)])

\* one historical record paired with its similarity
WithSimilarity(h, sim) ==
    [signature |-> h.signature, metadata |-> h.metadata, similarity |-> sim]

\* mutant: a record exactly at the threshold is dropped
KeepIfSimilarStrict(rec, threshold) ==
    IF FLess(threshold, rec.similarity) THEN <<rec>> ELSE <<>>

\* `if similarity >= threshold: similar.append(...)`
KeepIfSimilar(rec, threshold) ==
    IF FLeq(threshold, rec.similarity) THEN <<rec>> ELSE <<>>

\* the loop of find_similar_errors: the records at or above the threshold, in
\* the order of the historical list, each with its similarity
RECURSIVE SimilarAboveThreshold(_, _, _)
SimilarAboveThreshold(target_signature, historical_signatures, threshold) ==
    IF historical_signatures = <<>> THEN <<>>
    ELSE KeepIfSimilar(
             WithSimilarity(Head(historical_signatures),
                            calculate_similarity(target_signature,
                                                 Head(historical_signatures).signature)),
             threshold)
         \o SimilarAboveThreshold(target_signature, Tail(historical_signatures), threshold)

\* mutant: the threshold is not applied, every record is kept
find_similar_errors_keeps_all(target_signature, historical_signatures, threshold) ==
    SortDescending(
        SimilarAboveThreshold(target_signature, historical_signatures, FInt(0)))

\* ErrorSimilarityMatcher.find_similar_errors
find_similar_errors(target_signature, historical_signatures, threshold) ==
    SortDescending(
        SimilarAboveThreshold(target_signature, historical_signatures, threshold))

(* --------------------------- decision engine --------------------------- *)

\* schemas/request.py ErrorSignature
ErrorSignature(code, type, pattern) ==
    [http_status_code |-> code, error_type |-> type, error_message_pattern |-> pattern]

\* "success" if the event eventually succeeded, else "failure"
Outcome(event_status) == IF event_status = "SUCCESS" THEN "success" ELSE "failure"

\* one (hist_signature, metadata) pair of _load_historical_outcomes
HistoricalEntry(row) ==
    [signature |-> ErrorSignature(row.classification.http_status_code,
                                  row.classification.error_type,
                                  row.classification.error_message),
     metadata |-> [decision |-> row.classification.decision,
                   outcome |-> Outcome(row.event_status),
                   event_status |-> row.event_status,
                   retry_count |-> row.retry_count]]

\* mutant: the filter on the webhook is left out of the query
QueryFilterAnyWebhook(row, error_signature, webhook_id) ==
    /\ error_signature.http_status_code # None =>
           row.classification.http_status_code = error_signature.http_status_code
    /\ TruthyName(error_signature.error_type) =>
           row.classification.error_type = error_signature.error_type

\* the filters of the historical query on one row: the webhook, and the
\* status code and the error type of the target where it gives them; an SQL
\* equality holds for no row whose column is NULL
QueryFilter(row, error_signature, webhook_id) ==
    /\ row.classification.webhook_id = webhook_id
    /\ error_signature.http_status_code # None =>
           row.classification.http_status_code = error_signature.http_status_code
    /\ TruthyName(error_signature.error_type) =>
           row.classification.error_type = error_signature.error_type

\* query.limit(1000)
QueryLimit == 1000

\* results = query.limit(1000).all(): the first 1000 of the rows of the table
\* that pass the filters, newest first
QueryResults(table, error_signature, webhook_id) ==
    LET Passes(row) == QueryFilter(row, error_signature, webhook_id)
        passing == SelectSeq(table, Passes)
    IN  IF Len(passing) <= QueryLimit THEN passing
        ELSE SubSeq(passing, 1, QueryLimit)

\* DecisionEngine._load_historical_outcomes: the query, then the loop over
\* the rows it returned
load_historical_outcomes(error_signature, webhook_id, table) ==
    LET results == QueryResults(table, error_signature, webhook_id)
    IN  [i \in 1..Len(results) |-> HistoricalEntry(results[i])]

\* position of a decision among the keys of decision_stats, 0 when absent
RECURSIVE KeyIndex(_, _)
KeyIndex(stats, decision) ==
    IF stats = <<>> THEN 0
    ELSE IF stats[Len(stats)].decision = decision THEN Len(stats)
         ELSE KeyIndex(SubSeq(stats, 1, Len(stats) - 1), decision)

\* `if decision not in decision_stats: decision_stats[decision] = {...}`
WithKey(stats, decision) ==
    IF KeyIndex(stats, decision) = 0
    THEN Append(stats, [decision |-> decision, success_count |-> 0,
                        total_count |-> 0, successes |-> <<>>, failures |-> <<>>])
    ELSE stats

\* the counting of one record into the entry of its decision
Counted(old, outcome, similarity_score) ==
    IF outcome = "success"
    THEN [old EXCEPT !.total_count = @ + 1,
                     !.success_count = @ + 1,
                     !.successes = Append(@, similarity_score)]
    ELSE [old EXCEPT !.total_count = @ + 1,
                     !.failures = Append(@, similarity_score)]

CountedAt(stats, k, outcome, similarity_score) ==
    [stats EXCEPT ![k] = Counted(@, outcome, similarity_score)]

\* one pass of the first loop of _compute_decision_success_rates
CountRecord(stats, decision, outcome, similarity_score) ==
    IF decision = ""
    THEN stats
    ELSE CountedAt(WithKey(stats, decision),
                   KeyIndex(WithKey(stats, decision), decision),
                   outcome, similarity_score)

\* the first loop of _compute_decision_success_rates: decision_stats, a dict
\* kept as the sequence of its entries in insertion order
RECURSIVE DecisionStats(_)
DecisionStats(similar) ==
    IF similar = <<>> THEN <<>>
    ELSE CountRecord(DecisionStats(SubSeq(similar, 1, Len(similar) - 1)),
                     similar[Len(similar)].metadata.decision,
                     similar[Len(similar)].metadata.outcome,
                     similar[Len(similar)].similarity)

\* one entry of success_rates
RateEntry(st) ==
    [decision |-> st.decision,
     success_rate |-> Frac(st.success_count, st.total_count),
     sample_size |-> st.total_count,
     success_count |-> st.success_count]

\* the second loop: one entry per decision whose total_count is positive
RECURSIVE SuccessRates(_)
SuccessRates(stats) ==
    IF stats = <<>> THEN <<>>
    ELSE (IF Head(stats).total_count > 0 THEN <<RateEntry(Head(stats))>> ELSE <<>>)
         \o SuccessRates(Tail(stats))

\* DecisionEngine._compute_decision_success_rates
compute_decision_success_rates(similar) == SuccessRates(DecisionStats(similar))

\* schemas/response.py DecisionEvidence
DecisionEvidence(sample_size, success_rate, decision_type, similarity_score, confidence_score) ==
    [sample_size |-> sample_size, success_rate |-> success_rate,
     decision_type |-> decision_type, similarity_score |-> similarity_score,
     confidence_score |-> confidence_score]

\* schemas/response.py ClassifyErrorResponse
ClassifyErrorResponse(decision, confidence_score, explanation, evidence, fallback_used) ==
    [decision |-> decision, confidence_score |-> confidence_score,
     explanation |-> explanation, evidence |-> evidence, fallback_used |-> fallback_used]

\* mutant: the error-type rule is tried before the client-error rule
FallbackChoiceTypeFirst(error_signature) ==
    LET code == error_signature.http_status_code
    IN  IF code = Some(429)
        THEN [decision |-> "RETRY", explanation |-> <<"Rate limiting detected.">>]
        ELSE IF TruthyInt(code) /\ 500 <= code[1] /\ code[1] < 600
        THEN [decision |-> "RETRY", explanation |-> <<"Server error detected.">>]
        ELSE IF error_signature.error_type \in {Some("NETWORK_ERROR"), Some("TIMEOUT_ERROR")}
        THEN [decision |-> "RETRY", explanation |-> <<"Network error detected.">>]
        ELSE IF TruthyInt(code) /\ 400 <= code[1] /\ code[1] < 500
        THEN [decision |-> "FAIL_PERMANENT", explanation |-> <<"Client error detected.">>]
        ELSE [decision |-> "RETRY", explanation |-> <<"Insufficient historical data.">>]

\* the decision and explanation branches of _fallback_decision
FallbackChoice(error_signature) ==
    LET code == error_signature.http_status_code
    IN  IF code = Some(429)
        THEN [decision |-> "RETRY",
              explanation |-> <<"Rate limiting detected. Safe fallback: RETRY (rate limits are typically temporary).">>]
        ELSE IF TruthyInt(code) /\ 500 <= code[1] /\ code[1] < 600
        THEN [decision |-> "RETRY",
              explanation |-> <<"Server error detected. Safe fallback: RETRY (server errors are often transient).">>]
        ELSE IF TruthyInt(code) /\ 400 <= code[1] /\ code[1] < 500
        THEN [decision |-> "FAIL_PERMANENT",
              explanation |-> <<"Client error detected. Safe fallback: FAIL_PERMANENT (client errors typically don't resolve with retry).">>]
        ELSE IF error_signature.error_type \in {Some("NETWORK_ERROR"), Some("TIMEOUT_ERROR")}
        THEN [decision |-> "RETRY",
              explanation |-> <<"Network error detected. Safe fallback: RETRY (network issues are often transient).">>]
        ELSE [decision |-> "RETRY",
              explanation |-> <<"Insufficient historical data. Safe fallback: RETRY (conservative approach).">>]

\* mutant: the fallback evidence reports a similarity of 0.0 instead of None
FallbackEvidenceZeroSimilarity(decision) ==
    DecisionEvidence(0, Frac(1, 2), decision, Some(FInt(0)), Frac(3, 10))

\* the evidence every fallback decision carries
FallbackEvidence(decision) ==
    DecisionEvidence(0, Frac(1, 2), decision, None, Frac(3, 10))

\* the response _fallback_decision builds from its choice
FallbackResponse(choice) ==
    ClassifyErrorResponse(choice.decision, Frac(3, 10), choice.explanation,
                          FallbackEvidence(choice.decision), TRUE)

\* mutant: a request that was retried before is given up
fallback_decision_gives_up_on_retries(request) ==
    IF request.retry_count > 0
    THEN FallbackResponse([decision |-> "FAIL_PERMANENT",
                           explanation |-> <<"Retried before. Safe fallback: FAIL_PERMANENT.">>])
    ELSE FallbackResponse(FallbackChoice(request.error_signature))

\* DecisionEngine._fallback_decision
fallback_decision(request) == FallbackResponse(FallbackChoice(request.error_signature))

\* mutant: the mean is taken over the records that share the action of the
\* first matched record only
AverageSimilarityOfFirstAction(similar) ==
    IF similar # <<>>
    THEN FDiv(FSumSeq([i \in 1..Len(similar) |->
                          IF similar[i].metadata.decision = similar[1].metadata.decision
                          THEN similar[i].similarity ELSE FInt(0)]),
              FInt(Cardinality({i \in 1..Len(similar) :
                                   similar[i].metadata.decision
                                       = similar[1].metadata.decision})))
    ELSE FInt(0)

\* avg_similarity of _choose_best_decision
AverageSimilarity(similar) ==
    IF similar # <<>>
    THEN FDiv(FSumSeq([i \in 1..Len(similar) |-> similar[i].similarity]),
              FInt(Len(similar)))
    ELSE FInt(0)

\* mutant: the sample confidence is not capped at 1.0
ConfidenceScoreUncapped(success_rate, sample_size) ==
    FAdd(FMul(Frac(sample_size, MIN_SAMPLE_SIZE), Frac(6, 10)),
         FMul(FMul(FAbs(FSub(success_rate, Frac(1, 2))), FInt(2)), Frac(4, 10)))

\* confidence_score of one candidate
ConfidenceScore(success_rate, sample_size) ==
    LET sample_confidence == FMin(FInt(1), Frac(sample_size, MIN_SAMPLE_SIZE))
        rate_confidence == FMul(FAbs(FSub(success_rate, Frac(1, 2))), FInt(2))
    IN  FAdd(FMul(sample_confidence, Frac(6, 10)), FMul(rate_confidence, Frac(4, 10)))

\* the candidate that one pass of the loop of _choose_best_decision rates
Candidate(stats, avg_similarity, confidence_score) ==
    [best_decision |-> Some(stats.decision),
     best_evidence |-> Some(DecisionEvidence(stats.sample_size, stats.success_rate,
                                             stats.decision, Some(avg_similarity),
                                             confidence_score)),
     best_score |-> FMul(stats.success_rate, confidence_score)]

\* mutant: a candidate that ties with the best so far replaces it
BetterOrEqual(prev, cand) == IF FLeq(prev.best_score, cand.best_score) THEN cand ELSE prev

\* `if decision_score > best_score:` the candidate replaces the best so far
Better(prev, cand) == IF FLess(prev.best_score, cand.best_score) THEN cand ELSE prev

\* the loop of _choose_best_decision over the candidates in dict order:
\* best_decision, best_evidence and best_score after the last one
RECURSIVE BestCandidate(_, _)
BestCandidate(rates, avg_similarity) ==
    IF rates = <<>>
    THEN [best_decision |-> None, best_evidence |-> None, best_score |-> FInt(-1)]
    ELSE Better(BestCandidate(SubSeq(rates, 1, Len(rates) - 1), avg_similarity),
                Candidate(rates[Len(rates)], avg_similarity,
                          ConfidenceScore(rates[Len(rates)].success_rate,
                                          rates[Len(rates)].sample_size)))

\* a ClassifyErrorResponse as a returned value
AsResponse(r) == [type |-> "ClassifyErrorResponse", value |-> r]

\* a (decision, evidence) tuple as a returned value
AsTuple(decision, evidence) == [type |-> "tuple", value |-> <<decision, evidence>>]

\* mutant: the sample size of the best candidate is not tested
ChooseFromBestIgnoringSampleSize(best, request) ==
    IF best.best_evidence # None
       /\ FLess(best.best_evidence[1].confidence_score, CONFIDENCE_THRESHOLD)
    THEN AsResponse(fallback_decision(request))
    ELSE IF best.best_decision = None
    THEN AsResponse(fallback_decision(request))
    ELSE AsTuple(best.best_decision[1], best.best_evidence[1])

\* the two threshold tests that end _choose_best_decision
ChooseFromBest(best, request) ==
    IF best.best_evidence # None
       /\ FLess(best.best_evidence[1].confidence_score, CONFIDENCE_THRESHOLD)
    THEN AsResponse(fallback_decision(request))
    ELSE IF best.best_decision = None
            \/ best.best_evidence[1].sample_size < MIN_SAMPLE_SIZE
    THEN AsResponse(fallback_decision(request))
    ELSE AsTuple(best.best_decision[1], best.best_evidence[1])

\* DecisionEngine._choose_best_decision: what it returns is either the
\* (decision, evidence) tuple or, on its two fallback returns, a
\* ClassifyErrorResponse
choose_best_decision(decision_success_rates, similar, request) ==
    ChooseFromBest(BestCandidate(decision_success_rates, AverageSimilarity(similar)),
                   request)

\* how many items iterating a value yields: a tuple its elements, a pydantic
\* model one (name, value) pair per field
IterationLength(v) ==
    IF v.type = "tuple" THEN Len(v.value) ELSE Cardinality(DOMAIN v.value)

\* int(x * 100)
Percent(x) == FTrunc(FMul(x, FInt(100)))

\* the optional similarity sentence of the explanation
SimilarityPart(similarity_score) ==
    IF similarity_score # None /\ similarity_score[1] # FInt(0)
    THEN <<"Similarity score:", ToString(Percent(similarity_score[1])), "%.">>
    ELSE <<>>

\* error_desc joined by ", "
ErrorDesc(sig) ==
    (IF TruthyInt(sig.http_status_code)
     THEN <<"HTTP", ToString(sig.http_status_code[1])>> ELSE <<>>)
    \o (IF TruthyInt(sig.http_status_code) /\ TruthyName(sig.error_type)
        THEN <<",">> ELSE <<>>)
    \o (IF TruthyName(sig.error_type) THEN <<sig.error_type[1]>> ELSE <<>>)

\* the optional error sentence of the explanation
ErrorPart(error_desc) ==
    IF error_desc # <<>> THEN <<"Error:">> \o error_desc \o <<".">> ELSE <<>>

\* DecisionEngine._generate_explanation; the text is kept as the sequence of
\* its pieces
generate_explanation(decision, evidence, request, similar_count) ==
    <<"Based on", ToString(evidence.sample_size), "similar historical errors",
      "(", ToString(similar_count), "matched by similarity),",
      decision, "has a", ToString(Percent(evidence.success_rate)), "% success rate.">>
    \o SimilarityPart(evidence.similarity_score)
    \o ErrorPart(ErrorDesc(request.error_signature))
    \o <<"Confidence:", ToString(Percent(evidence.confidence_score)), "%.">>

\* the locals of one classify_error call when it ends
CallLocals(historical_data, similar, rates, chosen) ==
    [historical_data |-> historical_data, similar_errors |-> similar,
     decision_success_rates |-> rates, chosen |-> chosen]

Returned(response, locals) == [kind |-> "returned", response |-> response, locals |-> locals]

Raised(error, locals) == [kind |-> "raised", error |-> error, locals |-> locals]

\* the learned response that ends classify_error
LearnedResponse(best_decision, evidence, request, similar_count) ==
    ClassifyErrorResponse(best_decision, evidence.confidence_score,
                          generate_explanation(best_decision, evidence, request,
                                               similar_count),
                          evidence, FALSE)

\* classify_error from `best_decision, evidence = ...` on: the value
\* _choose_best_decision returned is unpacked into two names
ClassifyChosen(request, locals, chosen) ==
    IF IterationLength(chosen) # 2
    THEN Raised("ValueError", locals)
    ELSE Returned(LearnedResponse(chosen.value[1], chosen.value[2], request,
                                  Len(locals.similar_errors)),
                  locals)

\* classify_error once _choose_best_decision has returned
ClassifyChoice(request, historical_data, similar, rates, chosen) ==
    ClassifyChosen(request, CallLocals(historical_data, similar, rates, Some(chosen)),
                   chosen)

\* classify_error from the test of decision_success_rates on
ClassifyRated(request, historical_data, similar, rates) ==
    IF rates = <<>>
    THEN Returned(fallback_decision(request),
                  CallLocals(historical_data, similar, rates, None))
    ELSE ClassifyChoice(request, historical_data, similar, rates,
                        choose_best_decision(rates, similar, request))

\* classify_error from the test of similar_errors on
ClassifySimilar(request, historical_data, similar) ==
    IF similar = <<>>
    THEN Returned(fallback_decision(request),
                  CallLocals(historical_data, similar, <<>>, None))
    ELSE ClassifyRated(request, historical_data, similar,
                       compute_decision_success_rates(similar))

\* classify_error from the test of historical_data on
ClassifyLoaded(request, historical_data) ==
    IF historical_data = <<>>
    THEN Returned(fallback_decision(request),
                  CallLocals(historical_data, <<>>, <<>>, None))
    ELSE ClassifySimilar(request, historical_data,
                         find_similar_errors(request.error_signature, historical_data,
                                             SIMILARITY_THRESHOLD))

\* DecisionEngine.classify_error against the stored classifications
classify_error(request, table) ==
    ClassifyLoaded(request,
                   load_historical_outcomes(request.error_signature,
                                            request.webhook_health.webhook_id,
                                            table))

\* the try/except of the endpoint around the engine's outcome
HttpAnswer(r) ==
    IF r.kind = "raised"
    THEN [status_code |-> 500, engine |-> r]
    ELSE [status_code |-> 200, engine |-> r]

\* api/v1/endpoints/classify.py classify_error: the engine's response, or
\* HTTP 500 for any exception
endpoint_classify_error(request, table) == HttpAnswer(classify_error(request, table))

(* ----------------------------- input sets ------------------------------ *)

RECURSIVE StringsOfLen(_)
StringsOfLen(k) ==
    IF k = 0 THEN {<<>>}
    ELSE {Append(s, c) : s \in StringsOfLen(k - 1), c \in Chars}

\* no pattern, and every string of at most n characters
MessagePatternsUpTo(n) ==
    {None} \cup {Some(s) : s \in UNION {StringsOfLen(k) : k \in 0..n}}

ErrorTypes == {None, Some(""), Some("NETWORK_ERROR"), Some("TIMEOUT_ERROR")}

\* the historical signatures calculate_similarity is called on
Signatures ==
    {ErrorSignature(c, t, p) :
        c \in {None, Some(404), Some(429), Some(503)}, t \in ErrorTypes,
        p \in MessagePatternsUpTo(MaxLen)}

\* the target signatures each of them is compared with
TargetSignatures ==
    {ErrorSignature(c, t, p) :
        c \in {None, Some(404), Some(503)},
        t \in {None, Some(""), Some("TIMEOUT_ERROR")},
        p \in MessagePatternsUpTo(MaxTargetLen)}

\* schemas/request.py WebhookHealth
WebhookHealth ==
    [webhook_id |-> 1, total_failures |-> 0, total_successes |-> 0,
     consecutive_failures |-> 0, circuit_breaker_state |-> None,
     last_failure_time |-> None]

\* schemas/request.py ClassifyErrorRequest
ClassifyErrorRequest(error_signature, retry_count) ==
    [error_signature |-> error_signature, retry_count |-> retry_count,
     recent_failure_rate |-> FInt(0), webhook_health |-> WebhookHealth]

\* the signatures of the requests classified against stored history
RequestSignatures ==
    { ErrorSignature(Some(503), Some("TIMEOUT_ERROR"), Some(<<"a", " ", "B">>)),
      ErrorSignature(Some(404), None, None),
      ErrorSignature(None, Some("TIMEOUT_ERROR"), Some(<<"a">>)) }

\* the retry counts requests carry
RetryCounts == {0, 1}

Requests ==
    {ClassifyErrorRequest(sig, rc) : sig \in RequestSignatures, rc \in RetryCounts}

\* one stored ErrorClassification of webhook 1 joined with its event's status
\* and retry count
Row(code, type, message, decision, event_status) ==
    [classification |-> [webhook_id |-> 1, http_status_code |-> code,
                         error_type |-> type, error_message |-> message,
                         decision |-> decision],
     event_status |-> event_status, retry_count |-> 0]

\* the rows the persistence layer can hold
Rows ==
    { Row(Some(503), Some("TIMEOUT_ERROR"), Some(<<"a", " ", "B">>), "RETRY", "SUCCESS"),
      Row(Some(503), Some("TIMEOUT_ERROR"), Some(<<"a">>), "RETRY", "RETRY_PENDING"),
      Row(Some(503), Some("TIMEOUT_ERROR"), None, "ESCALATE", "SUCCESS") }

\* the requests the fallback policy is exercised on, their status codes
\* around the boundaries of the policy
FallbackRequests ==
    {ClassifyErrorRequest(ErrorSignature(c, t, p), rc) :
        c \in {None, Some(0), Some(399), Some(400), Some(404), Some(429),
               Some(499), Some(500), Some(503), Some(599), Some(600)},
        t \in ErrorTypes,
        p \in {None, Some(<<"a">>)}, rc \in RetryCounts}

(* ------------------------------- state --------------------------------- *)

VARIABLES
    error_classifications,
                  \* the stored classifications not older than the cutoff date,
                  \* each joined with its event, newest first
    request,      \* the request of the last classify call, None before any
    response,     \* what the endpoint answered to it
    signature1,   \* the arguments of the last calculate_similarity call
    signature2,
    scores,       \* its three feature scores
    similarity,   \* its return value, None before any call
    previous      \* an earlier call with its answer, kept aside to compare a
                  \* later call with; not state of the service

vars == <<error_classifications, request, response, signature1, signature2, scores,
          similarity, previous>>

matcherVars == <<signature1, signature2, scores, similarity>>

Init ==
    /\ error_classifications = <<>>
    /\ request = None
    /\ response = None
    /\ signature1 = ErrorSignature(None, None, None)
    /\ signature2 = ErrorSignature(None, None, None)
    /\ scores = <<>>
    /\ similarity = None
    /\ previous = None

\* the delivery service stores one more classification with its outcome; the
\* query orders by created_at descending, so it comes first
StoreClassification(row) ==
    /\ response = None
    /\ Len(error_classifications) < MaxRows
    /\ error_classifications' = <<row>> \o error_classifications
    /\ UNCHANGED <<request, response>>
    /\ UNCHANGED matcherVars
    /\ UNCHANGED previous

\* POST /error: one classification of req against the stored history
ClassifyError(req) ==
    /\ response = None
    /\ request' = Some(req)
    /\ response' = Some(endpoint_classify_error(req, error_classifications))
    /\ UNCHANGED error_classifications
    /\ UNCHANGED matcherVars
    /\ UNCHANGED previous

\* the answer leaves the service; nothing of the call is kept
SendResponse ==
    /\ response # None
    /\ request' = None
    /\ response' = None
    /\ UNCHANGED error_classifications
    /\ UNCHANGED matcherVars
    /\ UNCHANGED previous

Next ==
    \/ \E row \in Rows : StoreClassification(row)
    \/ \E req \in Requests : ClassifyError(req)
    \/ SendResponse

Spec == Init /\ [][Next]_vars

(* ------------- specification: the fallback policy on its own ----------- *)

NextFallback ==
    \/ \E req \in FallbackRequests : ClassifyError(req)
    \/ SendResponse

\* classify calls against an empty history
SpecFallback == Init /\ [][NextFallback]_vars

(* ------------ specification: records unlike the request --------------- *)

\* rows of HTTP 404, all of which the query returns for a request that gives
\* this status code only: the request matches the first in full and the
\* second at the threshold; the third has an error type and is below it
UnlikeRows ==
    { Row(Some(404), None, None, "FAIL_PERMANENT", "FAILURE"),
      Row(Some(404), None, Some(<<"a">>), "FAIL_PERMANENT", "FAILURE"),
      Row(Some(404), Some("TIMEOUT_ERROR"), None, "RETRY", "SUCCESS") }

NextUnlike ==
    \/ \E row \in UnlikeRows : StoreClassification(row)
    \/ \E req \in Requests : ClassifyError(req)
    \/ SendResponse

\* classify calls against a history that holds records of several errors
SpecUnlike == Init /\ [][NextUnlike]_vars

(* ---------------- specification: calculate_similarity ------------------ *)

\* what one call calculate_similarity(s1, s2) leaves
Calculated(s1, s2) ==
    /\ signature1' = s1
    /\ signature2' = s2
    /\ scores' = FeatureScores(s1, s2)
    /\ similarity' = Some(WeightedAverage(scores'))
    /\ UNCHANGED <<error_classifications, request, response>>
    /\ UNCHANGED previous

\* a target signature is compared with a historical one
CalculateSimilarity ==
    /\ similarity = None
    /\ \E s1 \in TargetSignatures, s2 \in Signatures : Calculated(s1, s2)

\* a signature is compared with itself
CalculateSelfSimilarity ==
    /\ similarity = None
    /\ \E a \in Signatures : Calculated(a, a)

NextSimilarity == CalculateSimilarity \/ CalculateSelfSimilarity

SpecSimilarity == Init /\ [][NextSimilarity]_vars

(* ------------ specification: two actions on equal records ------------- *)

\* rows of two actions whose signatures differ in the message only; both
\* events ended in SUCCESS
TiedRows ==
    { Row(Some(503), Some("TIMEOUT_ERROR"), Some(<<"a", " ", "B">>), "RETRY", "SUCCESS"),
      Row(Some(503), Some("TIMEOUT_ERROR"), Some(<<"a">>), "ESCALATE", "SUCCESS") }

\* requests these rows match: one nearer to the RETRY rows, one nearer to the
\* ESCALATE rows, one as near to both
TiedRequests ==
    { ClassifyErrorRequest(
          ErrorSignature(Some(503), Some("TIMEOUT_ERROR"), Some(<<"a", " ", "B">>)), 0),
      ClassifyErrorRequest(
          ErrorSignature(Some(503), Some("TIMEOUT_ERROR"), Some(<<"a">>)), 0),
      ClassifyErrorRequest(
          ErrorSignature(Some(503), Some("TIMEOUT_ERROR"), None), 0) }

\* the delivery service stores one more classification of that signature
StoreTiedClassification(row) ==
    /\ response = None
    /\ Len(error_classifications) < MaxTiedRows
    /\ error_classifications' = <<row>> \o error_classifications
    /\ UNCHANGED <<request, response>>
    /\ UNCHANGED matcherVars
    /\ UNCHANGED previous

NextTied ==
    \/ \E row \in TiedRows : StoreTiedClassification(row)
    \/ \E req \in TiedRequests : ClassifyError(req)
    \/ SendResponse

\* classify calls against a history in which two actions compete
SpecTied == Init /\ [][NextTied]_vars

(* ------------------ specification: repeated calls ---------------------- *)

\* a WebhookHealth that differs from the first in every counter
FailingWebhookHealth ==
    [webhook_id |-> 1, total_failures |-> 10, total_successes |-> 90,
     consecutive_failures |-> 3, circuit_breaker_state |-> Some("OPEN"),
     last_failure_time |-> Some(1)]

\* the contextual fields of a request: a first call, a retried call while
\* half of the recent deliveries failed, and a first call to a failing webhook
Contexts ==
    { [retry_count |-> 0, recent_failure_rate |-> FInt(0),
       webhook_health |-> WebhookHealth],
      [retry_count |-> 2, recent_failure_rate |-> Frac(1, 2),
       webhook_health |-> WebhookHealth],
      [retry_count |-> 0, recent_failure_rate |-> FInt(0),
       webhook_health |-> FailingWebhookHealth] }

\* schemas/request.py ClassifyErrorRequest, every field given
RequestInContext(error_signature, context) ==
    [error_signature |-> error_signature, retry_count |-> context.retry_count,
     recent_failure_rate |-> context.recent_failure_rate,
     webhook_health |-> context.webhook_health]

\* one error signature asked about in every context
RepeatedRequests ==
    {RequestInContext(
         ErrorSignature(Some(503), Some("TIMEOUT_ERROR"), Some(<<"a", " ", "B">>)), ctx) :
        ctx \in Contexts}

\* the rows stored between the calls: resolved RETRYs of a signature that
\* matches it in all but one word of the message
RepeatedRows ==
    { Row(Some(503), Some("TIMEOUT_ERROR"), Some(<<"a">>), "RETRY", "SUCCESS") }

\* the same rows stored for another webhook, which the query leaves out
OtherWebhookRows ==
    { [row EXCEPT !.classification.webhook_id = 2] : row \in RepeatedRows }

\* the delivery service stores one more classification
StoreRepeatedClassification(row) ==
    /\ response = None
    /\ Len(error_classifications) < MaxRepeatedRows
    /\ error_classifications' = <<row>> \o error_classifications
    /\ UNCHANGED <<request, response>>
    /\ UNCHANGED matcherVars
    /\ UNCHANGED previous

\* the delivery service stores a classification for another webhook
StoreForOtherWebhook(row) ==
    /\ response = None
    /\ Len(error_classifications) < MaxRepeatedRows
    /\ Cardinality({i \in 1..Len(error_classifications) :
                        error_classifications[i].classification.webhook_id # 1})
           < MaxOtherWebhookRows
    /\ error_classifications' = <<row>> \o error_classifications
    /\ UNCHANGED <<request, response>>
    /\ UNCHANGED matcherVars
    /\ UNCHANGED previous

\* the oldest row falls behind the cutoff date of the query
ExpireOldest ==
    /\ response = None
    /\ error_classifications # <<>>
    /\ error_classifications' =
           SubSeq(error_classifications, 1, Len(error_classifications) - 1)
    /\ UNCHANGED <<request, response>>
    /\ UNCHANGED matcherVars
    /\ UNCHANGED previous

\* the answer leaves the service and the call is kept aside with it
RememberResponse ==
    /\ response # None
    /\ previous' = Some([request |-> request[1],
                         error_classifications |-> error_classifications,
                         response |-> response[1]])
    /\ request' = None
    /\ response' = None
    /\ UNCHANGED error_classifications
    /\ UNCHANGED matcherVars

NextRepeated ==
    \/ \E row \in RepeatedRows : StoreRepeatedClassification(row)
    \/ \E row \in OtherWebhookRows : StoreForOtherWebhook(row)
    \/ ExpireOldest
    \/ \E req \in RepeatedRequests : ClassifyError(req)
    \/ SendResponse
    \/ RememberResponse

\* classify calls repeated while the history grows and shrinks
SpecRepeated == Init /\ [][NextRepeated]_vars

(* ------------- specification: rows of two webhooks stored -------------- *)

\* the delivery service stores one more classification for the webhook of
\* the requests
StoreOwnClassification(row) ==
    /\ response = None
    /\ Len(error_classifications) < MaxMixedRows
    /\ error_classifications' = <<row>> \o error_classifications
    /\ UNCHANGED <<request, response>>
    /\ UNCHANGED matcherVars
    /\ UNCHANGED previous

\* the delivery service stores one more classification for another webhook
StoreOtherClassification(row) ==
    /\ response = None
    /\ Len(error_classifications) < MaxMixedRows
    /\ Cardinality({i \in 1..Len(error_classifications) :
                        error_classifications[i].classification.webhook_id # 1})
           < MaxOtherWebhookRows
    /\ error_classifications' = <<row>> \o error_classifications
    /\ UNCHANGED <<request, response>>
    /\ UNCHANGED matcherVars
    /\ UNCHANGED previous

\* the requests are those of one signature for the healthy webhook, a first
\* call and a retried one
NextMixed ==
    \/ \E row \in RepeatedRows : StoreOwnClassification(row)
    \/ \E row \in OtherWebhookRows : StoreOtherClassification(row)
    \/ ExpireOldest
    \/ \E req \in {r \in RepeatedRequests : r.webhook_health = WebhookHealth} :
           ClassifyError(req)
    \/ SendResponse
    \/ RememberResponse

\* classify calls repeated while rows of its own and of another webhook are
\* stored and expire
SpecMixed == Init /\ [][NextMixed]_vars

(* ------------------------- shorthands for claims ----------------------- *)

HasResponse == response # None

Engine == response[1].engine

EngineReturned == HasResponse /\ Engine.kind = "returned"

EngineRaised == HasResponse /\ Engine.kind = "raised"

\* the request of the call that was answered
Req == request[1]

\* the evidence of the winning action of the last call's candidates
Winner ==
    BestCandidate(Engine.locals.decision_success_rates,
                  AverageSimilarity(Engine.locals.similar_errors)).best_evidence

\* evidence short of confidence or of samples
LowEvidence(w) ==
    /\ w # None
    /\ \/ FLess(w[1].confidence_score, CONFIDENCE_THRESHOLD)
       \/ w[1].sample_size < MIN_SAMPLE_SIZE

\* the call got past the candidate statistics, and its winner is short of
\* confidence or of samples
LowEvidenceCall ==
    /\ HasResponse
    /\ Engine.locals.similar_errors # <<>>
    /\ LowEvidence(Winner)

IsStaticFallback(r) ==
    /\ r.fallback_used
    /\ r.confidence_score = Frac(3, 10)
    /\ r.evidence.sample_size = 0

(* -------------------------------- C1 ----------------------------------- *)

\* C1: a call with a non-empty matched set whose winning action has
\* confidence below CONFIDENCE_THRESHOLD or fewer than MIN_SAMPLE_SIZE samples
\* returns the static fallback Decision (fallback_used, confidence 0.3,
\* sample_size 0), not an error and not a learned decision
LowEvidenceReturnsFallback ==
    LowEvidenceCall => EngineReturned /\ IsStaticFallback(Engine.response)

(* -------------------------------- C2 ----------------------------------- *)

\* C2: every classify call ends by returning a Decision; none raises
ClassifyNeverRaises ==
    HasResponse => Engine.kind = "returned" /\ response[1].status_code = 200

(* -------------------------------- C3 ----------------------------------- *)

\* no historical record of the call reaches the similarity threshold
NoRecordSimilar ==
    \A i \in 1..Len(Engine.locals.historical_data) :
        FLess(calculate_similarity(Req.error_signature,
                                   Engine.locals.historical_data[i].signature),
              SIMILARITY_THRESHOLD)

\* C3: when no historical record reaches the similarity threshold (the empty
\* list included), classify returns fallback_used = true with
\* evidence.sample_size = 0
NoSimilarRecordFallsBack ==
    (HasResponse /\ NoRecordSimilar) =>
        /\ EngineReturned
        /\ Engine.response.fallback_used
        /\ Engine.response.evidence.sample_size = 0

\* a non-empty history, none of it similar, answered by the fallback
WitnessNoSimilarRecord ==
    /\ HasResponse
    /\ Len(Engine.locals.historical_data) >= 2
    /\ NoRecordSimilar
    /\ EngineReturned
    /\ Engine.response.fallback_used

(* -------------------------------- C5 ----------------------------------- *)

\* C5: every returned Decision with fallback_used = true has
\* evidence.sample_size = 0 and no evidence.similarity_score
FallbackHasNoSampleNoSimilarity ==
    (EngineReturned /\ Engine.response.fallback_used) =>
        /\ Engine.response.evidence.sample_size = 0
        /\ Engine.response.evidence.similarity_score = None

\* a fallback Decision returned against a full history
WitnessFallbackEvidence ==
    /\ EngineReturned
    /\ Engine.response.fallback_used
    /\ Len(error_classifications) = MaxRows
    /\ Engine.response.evidence.sample_size = 0
    /\ Engine.response.evidence.similarity_score = None

(* -------------------------------- C4 ----------------------------------- *)

InRange(code, lo, hi) == code # None /\ lo <= code[1] /\ code[1] < hi

\* the action the priority list of the policy gives a signature
PolicyAction(sig) ==
    IF sig.http_status_code = Some(429) THEN "RETRY"
    ELSE IF InRange(sig.http_status_code, 500, 600) THEN "RETRY"
    ELSE IF InRange(sig.http_status_code, 400, 500) THEN "FAIL_PERMANENT"
    ELSE IF sig.error_type \in {Some("NETWORK_ERROR"), Some("TIMEOUT_ERROR")} THEN "RETRY"
    ELSE "RETRY"

\* C4: the fallback action is decided by the error signature alone, in the
\* order 429 -> RETRY, 5xx -> RETRY, other 4xx -> FAIL_PERMANENT, network or
\* timeout error type -> RETRY, else RETRY; every fallback Decision has
\* confidence_score 0.3 and success_rate 0.5
FallbackFollowsPolicy ==
    (EngineReturned /\ Engine.response.fallback_used) =>
        /\ Engine.response.decision = PolicyAction(Req.error_signature)
        /\ Engine.response.evidence.decision_type = Engine.response.decision
        /\ Engine.response.confidence_score = Frac(3, 10)
        /\ Engine.response.evidence.confidence_score = Frac(3, 10)
        /\ Engine.response.evidence.success_rate = Frac(1, 2)

\* a client-error status with a network error type: the status rule wins
WitnessStatusRuleBeforeTypeRule ==
    /\ EngineReturned
    /\ Engine.response.fallback_used
    /\ Req.error_signature.http_status_code = Some(404)
    /\ Req.error_signature.error_type = Some("NETWORK_ERROR")
    /\ Engine.response.decision = "FAIL_PERMANENT"

(* -------------------------------- C6 ----------------------------------- *)

\* how often the record (signature, metadata) of h occurs in the list s
Occurrences(s, h) ==
    Cardinality({i \in 1..Len(s) :
        s[i].signature = h.signature /\ s[i].metadata = h.metadata})

\* similar is hist filtered by the threshold on the similarity to target,
\* with the scores attached, in non-increasing order
ExactAndSorted(target, hist, similar) ==
    /\ \A i \in 1..Len(similar) :
           /\ similar[i].similarity = calculate_similarity(target, similar[i].signature)
           /\ FLeq(SIMILARITY_THRESHOLD, similar[i].similarity)
           /\ Occurrences(hist, similar[i]) > 0
    /\ \A j \in 1..Len(hist) :
           Occurrences(similar, hist[j]) =
               IF FLeq(SIMILARITY_THRESHOLD,
                       calculate_similarity(target, hist[j].signature))
               THEN Occurrences(hist, hist[j]) ELSE 0
    /\ \A i \in 1..(Len(similar) - 1) :
           FLeq(similar[i + 1].similarity, similar[i].similarity)

\* C6: find_similar_errors returns exactly the records whose similarity to
\* the target is at least the threshold, each with its similarity, ordered
\* by non-increasing similarity
FindSimilarExactAndSorted ==
    (HasResponse /\ Engine.locals.historical_data # <<>>) =>
        ExactAndSorted(Req.error_signature, Engine.locals.historical_data,
                       Engine.locals.similar_errors)

\* sorting and filtering both showed on the lists
SortedAndFiltered(hist, similar) ==
    /\ Len(similar) >= 3
    /\ Len(similar) < Len(hist)
    /\ similar[Len(similar)].similarity = SIMILARITY_THRESHOLD
    /\ FLess(similar[Len(similar)].similarity, similar[1].similarity)
    /\ hist[1].signature # similar[1].signature

\* a record was left out, one exactly at the threshold was kept, and sorting
\* moved a later record in front of an earlier one
WitnessFindSimilar ==
    /\ HasResponse
    /\ SortedAndFiltered(Engine.locals.historical_data, Engine.locals.similar_errors)

(* -------------------------------- C7 ----------------------------------- *)

\* C7: calculate_similarity returns a value in [0, 1] for every pair of
\* signatures, whichever fields are present
SimilarityInUnitInterval ==
    similarity # None =>
        FLeq(FInt(0), similarity[1]) /\ FLeq(similarity[1], FInt(1))

\* a score strictly inside the interval that rests on a fractional Jaccard
\* similarity of two message patterns
WitnessFractionalSimilarity ==
    /\ similarity # None
    /\ scores[3] = Frac(1, 2)
    /\ scores[1] = Frac(2, 10)
    /\ FLess(FInt(0), similarity[1])
    /\ FLess(similarity[1], FInt(1))

(* -------------------------------- C8 ----------------------------------- *)

FullySpecified(sig) ==
    /\ sig.http_status_code # None
    /\ sig.error_type # None
    /\ sig.error_message_pattern # None

\* C8: calculate_similarity(a, a) is exactly 1.0 when the status code, the
\* error type and the message pattern of a are all present
SelfSimilarityIsOne ==
    (similarity # None /\ signature1 = signature2 /\ FullySpecified(signature1)) =>
        similarity[1] = FInt(1)

\* a fully specified signature with a two-word pattern compared with itself
WitnessSelfSimilarity ==
    /\ similarity # None
    /\ signature1 = signature2
    /\ FullySpecified(signature1)
    /\ Cardinality(WordSet(Lower(signature1.error_message_pattern[1]))) = 2
    /\ similarity[1] = FInt(1)

(* -------------------------------- C9 ----------------------------------- *)

\* the status-code feature as the table of the claim
StatusTable(c1, c2) ==
    IF c1 # None /\ c2 # None
    THEN IF c1[1] = c2[1] THEN FInt(1)
         ELSE IF c1[1] \div 100 = c2[1] \div 100 THEN Frac(1, 2) ELSE FInt(0)
    ELSE IF c1 = None /\ c2 = None THEN FInt(1) ELSE Frac(2, 10)

\* the blend 0.4 * status + 0.4 * type + 0.2 * message
Blend(sc) ==
    FAdd(FAdd(FMul(Frac(4, 10), sc[1]), FMul(Frac(4, 10), sc[2])),
         FMul(Frac(2, 10), sc[3]))

\* C9: the status-code feature is 1.0 for equal codes, 0.5 for unequal codes
\* with the same code div 100, 0.0 for codes of different hundreds, 1.0 when
\* both are absent and 0.2 when exactly one is present; it enters the score
\* with weight 0.4
StatusFeatureTable ==
    similarity # None =>
        /\ scores[1] = StatusTable(signature1.http_status_code,
                                   signature2.http_status_code)
        /\ similarity[1] = Blend(scores)

\* 404 against 429: same hundred, partial credit
WitnessSameCategory ==
    /\ similarity # None
    /\ signature1.http_status_code = Some(404)
    /\ signature2.http_status_code = Some(429)
    /\ scores[1] = Frac(1, 2)

(* -------------------------------- C10 ---------------------------------- *)

\* C10 as claimed: the error-type feature is 1.0 only when both types are
\* present and equal or both are absent, and 0.0 otherwise; an absent type
\* is distinct from every present one, the empty string included
ErrorTypeAbsentDistinctFromPresent ==
    similarity # None =>
        scores[2] = IF \/ /\ signature1.error_type # None
                          /\ signature2.error_type # None
                          /\ signature1.error_type = signature2.error_type
                       \/ /\ signature1.error_type = None
                          /\ signature2.error_type = None
                    THEN FInt(1) ELSE FInt(0)

\* an error type that is absent or the empty string
Blank(t) == t = None \/ t = Some("")

\* C10 amended: the error-type feature is 1.0 only when both types are
\* non-empty and equal or both are blank (absent or the empty string), and
\* 0.0 otherwise, including when exactly one is blank; the empty string is
\* treated as absent; the feature enters the score with weight 0.4
ErrorTypeFeatureTable ==
    similarity # None =>
        /\ scores[2] = IF \/ /\ ~Blank(signature1.error_type)
                             /\ ~Blank(signature2.error_type)
                             /\ signature1.error_type = signature2.error_type
                          \/ /\ Blank(signature1.error_type)
                             /\ Blank(signature2.error_type)
                       THEN FInt(1) ELSE FInt(0)
        /\ similarity[1] = Blend(scores)

\* an absent type against the empty string scores a full match
WitnessEmptyTypeMatchesAbsent ==
    /\ similarity # None
    /\ signature1.error_type = None
    /\ signature2.error_type = Some("")
    /\ scores[2] = FInt(1)

(* ------------------- shorthands for the learned path ------------------- *)

\* the matched set of the call that was answered
Matched == Engine.locals.similar_errors

\* the call returned a learned Decision
LearnedReturned == EngineReturned /\ ~Engine.response.fallback_used

\* the matched records that used an action
RecordsUsing(action) ==
    {i \in 1..Len(Matched) : Matched[i].metadata.decision = action}

\* those of them whose event ended in SUCCESS
ResolvedUsing(action) ==
    {i \in RecordsUsing(action) : Matched[i].metadata.event_status = "SUCCESS"}

\* resolved / total of the group of an action
GroupRate(action) ==
    Frac(Cardinality(ResolvedUsing(action)), Cardinality(RecordsUsing(action)))

\* 0.6 * min(1, sample_size / MIN_SAMPLE_SIZE) + 0.4 * 2 * |success_rate - 0.5|
StatedConfidence(sample_size, success_rate) ==
    FAdd(FMul(Frac(6, 10),
              IF sample_size >= MIN_SAMPLE_SIZE THEN FInt(1)
              ELSE Frac(sample_size, MIN_SAMPLE_SIZE)),
         FMul(Frac(8, 10),
              IF FLess(success_rate, Frac(1, 2))
              THEN FSub(Frac(1, 2), success_rate)
              ELSE FSub(success_rate, Frac(1, 2))))

(* -------------------------------- C11 ---------------------------------- *)

\* C11: when the winning action has at least MIN_SAMPLE_SIZE samples and a
\* confidence of at least CONFIDENCE_THRESHOLD, classify returns that action
\* with fallback_used = false, evidence.sample_size the number of matched
\* records using it, evidence.success_rate resolved/total of that group and
\* confidence_score = 0.6*min(1, sample_size/MIN_SAMPLE_SIZE)
\*                    + 0.4*2*|success_rate - 0.5|
LearnedDecisionReportsItsGroup ==
    (HasResponse /\ Matched # <<>> /\ Winner # None /\ ~LowEvidence(Winner)) =>
        /\ EngineReturned
        /\ ~Engine.response.fallback_used
        /\ Engine.response.decision = Winner[1].decision_type
        /\ Engine.response.evidence.sample_size
               = Cardinality(RecordsUsing(Engine.response.decision))
        /\ Engine.response.evidence.success_rate
               = GroupRate(Engine.response.decision)
        /\ Engine.response.confidence_score
               = StatedConfidence(Cardinality(RecordsUsing(Engine.response.decision)),
                                  GroupRate(Engine.response.decision))

\* RETRY resolved four of five matched records while another action was
\* matched too: success_rate 0.8, and the confidence is the float next above
\* 0.84, which int(x * 100) shows as 84
WitnessLearnedFourOfFive ==
    /\ LearnedReturned
    /\ Len(Matched) = 6
    /\ Engine.response.decision = "RETRY"
    /\ Engine.response.evidence.sample_size = 5
    /\ Engine.response.evidence.success_rate = Frac(8, 10)
    /\ FLess(Frac(84, 100), Engine.response.confidence_score)
    /\ Percent(Engine.response.confidence_score) = 84

(* -------------------------------- C15 ---------------------------------- *)

\* the sum of the similarity scores of those of the first k matched records
\* that are in a set, added in the order of the matched list
RECURSIVE SimilaritySumOfFirst(_, _)
SimilaritySumOfFirst(indices, k) ==
    IF k = 0 THEN FInt(0)
    ELSE IF k \in indices
    THEN FAdd(SimilaritySumOfFirst(indices, k - 1), Matched[k].similarity)
    ELSE SimilaritySumOfFirst(indices, k - 1)

SimilaritySum(indices) == SimilaritySumOfFirst(indices, Len(Matched))

\* the arithmetic mean of the similarity scores of a non-empty set of them
MeanSimilarity(indices) == FDiv(SimilaritySum(indices), FInt(Cardinality(indices)))

\* C15: on the learned path evidence.similarity_score is the arithmetic mean
\* of the similarity scores of all matched records, those of other actions
\* included, and not the mean over the winning action's records whenever the
\* two means differ
EvidenceSimilarityIsMeanOfMatchedSet ==
    LearnedReturned =>
        /\ Engine.response.evidence.similarity_score
               = Some(MeanSimilarity(1..Len(Matched)))
        /\ (MeanSimilarity(RecordsUsing(Engine.response.decision))
                # MeanSimilarity(1..Len(Matched)))
            => Engine.response.evidence.similarity_score
                   # Some(MeanSimilarity(RecordsUsing(Engine.response.decision)))

\* a learned Decision whose matched set holds a record of another action with
\* a lower similarity: the two means differ
WitnessOtherActionLowersMean ==
    /\ LearnedReturned
    /\ RecordsUsing(Engine.response.decision) # 1..Len(Matched)
    /\ MeanSimilarity(RecordsUsing(Engine.response.decision)) = FInt(1)
    /\ FLess(MeanSimilarity(1..Len(Matched)), FInt(1))

(* -------------------------------- C16 ---------------------------------- *)

\* C16: every Decision returned with fallback_used = false has
\* evidence.sample_size >= MIN_SAMPLE_SIZE and confidence_score >=
\* CONFIDENCE_THRESHOLD, and its confidence_score and action are those of its
\* evidence
LearnedDecisionMeetsThresholds ==
    LearnedReturned =>
        /\ Engine.response.evidence.sample_size >= MIN_SAMPLE_SIZE
        /\ FLeq(CONFIDENCE_THRESHOLD, Engine.response.confidence_score)
        /\ Engine.response.confidence_score
               = Engine.response.evidence.confidence_score
        /\ Engine.response.decision = Engine.response.evidence.decision_type

\* a learned Decision on exactly MIN_SAMPLE_SIZE samples, its confidence
\* below 1.0
WitnessLearnedAtMinimumSample ==
    /\ LearnedReturned
    /\ Engine.response.evidence.sample_size = MIN_SAMPLE_SIZE
    /\ FLess(Engine.response.confidence_score, FInt(1))

(* -------------------------------- C17 ---------------------------------- *)

\* C17: a learned Decision never recommends an action that resolved none of
\* the matched records: fallback_used = false implies
\* evidence.success_rate > 0
LearnedDecisionResolvedSome ==
    LearnedReturned => FLess(FInt(0), Engine.response.evidence.success_rate)

(* -------------------------------- C12 ---------------------------------- *)

\* the candidate actions of the matched set
CandidateActions == {Matched[i].metadata.decision : i \in 1..Len(Matched)}

\* decision_score = success_rate * confidence of the group of an action
GroupScore(action) ==
    FMul(GroupRate(action),
         StatedConfidence(Cardinality(RecordsUsing(action)), GroupRate(action)))

\* the position in the matched set of the first record of an action
FirstRecord(action) ==
    CHOOSE i \in RecordsUsing(action) : \A j \in RecordsUsing(action) : i <= j

\* an action ranks before another: a strictly higher decision_score, or the
\* same one and an earlier first record in the matched set
RanksBefore(a, b) ==
    \/ FLess(GroupScore(b), GroupScore(a))
    \/ /\ GroupScore(b) = GroupScore(a)
       /\ FirstRecord(a) < FirstRecord(b)

\* C12: the action of a learned Decision ranks before every other candidate
\* action of the matched set: it has the strictly highest decision_score =
\* success_rate * confidence, or ties for the highest and is the tied action
\* whose first record comes earliest in the matched set
SelectsHighestScoreFirstSeenOnTies ==
    LearnedReturned =>
        \A b \in CandidateActions \ {Engine.response.decision} :
            RanksBefore(Engine.response.decision, b)

\* RETRY and ESCALATE tie with the highest decision_score; the newest record
\* is an ESCALATE one, the RETRY records are more similar and come first in
\* the matched set, and RETRY is selected
WitnessTieGoesToFirstSeen ==
    /\ LearnedReturned
    /\ Engine.response.decision = "RETRY"
    /\ "ESCALATE" \in CandidateActions
    /\ GroupScore("RETRY") = GroupScore("ESCALATE")
    /\ Engine.locals.historical_data[1].metadata.decision = "ESCALATE"
    /\ FirstRecord("RETRY") < FirstRecord("ESCALATE")

(* -------------------------------- C13 ---------------------------------- *)

\* the historical record list of a request: what its query returns
RecordList(req, table) ==
    QueryResults(table, req.error_signature, req.webhook_health.webhook_id)

\* the call that was answered has the record list of the earlier call
SameRecordList ==
    /\ HasResponse
    /\ previous # None
    /\ RecordList(previous[1].request, previous[1].error_classifications)
           = RecordList(Req, error_classifications)

\* a stored row is a historical record of a request's error: it belongs to
\* the request's webhook, has its status code when the request gives one and
\* its error type when the request gives one
IsRecordOf(row, req) ==
    /\ row.classification.webhook_id = req.webhook_health.webhook_id
    /\ \/ req.error_signature.http_status_code = None
       \/ req.error_signature.http_status_code = row.classification.http_status_code
    /\ \/ req.error_signature.error_type \in {None, Some("")}
       \/ req.error_signature.error_type = row.classification.error_type

\* the historical records of a request's error among a table of at most 1000
\* rows, in the order of the table
HistoricalRecords(req, table) ==
    LET Relevant(row) == IsRecordOf(row, req)
    IN  SelectSeq(table, Relevant)

\* the call that was answered and the earlier call had the same request and
\* the same historical records
SameRequestSameRecords ==
    /\ HasResponse
    /\ previous # None
    /\ previous[1].request = Req
    /\ HistoricalRecords(Req, previous[1].error_classifications)
           = HistoricalRecords(Req, error_classifications)

SameSignatureOtherContext ==
    /\ SameRecordList
    /\ previous[1].request.error_signature = Req.error_signature
    /\ previous[1].request # Req

\* C14: two calls with the same error signature and the same historical
\* record list that differ in retry_count, recent_failure_rate or the webhook
\* health counters end alike and return the same action, confidence,
\* evidence and fallback flag
ContextDoesNotChangeDecision ==
    SameSignatureOtherContext =>
        /\ previous[1].response.engine.kind = Engine.kind
        /\ Engine.kind = "returned" =>
               /\ previous[1].response.engine.response.decision
                      = Engine.response.decision
               /\ previous[1].response.engine.response.confidence_score
                      = Engine.response.confidence_score
               /\ previous[1].response.engine.response.evidence
                      = Engine.response.evidence
               /\ previous[1].response.engine.response.fallback_used
                      = Engine.response.fallback_used

\* a fallback Decision for a request that was retried before, after the same
\* signature was answered with another webhook health
WitnessFallbackInOtherContext ==
    /\ SameSignatureOtherContext
    /\ EngineReturned
    /\ Engine.response.fallback_used
    /\ Req.retry_count > 0
    /\ previous[1].request.webhook_health # Req.webhook_health

====
